---------------------------- MODULE Spec2Model ----------------------------
(***************************************************************************)
(* Model of the analytics pipeline of src/app.py ("Aadhaar as a Living     *)
(* System").  The script runs top to bottom once per invocation: it loads  *)
(* three event tables, filters them by a date range and a state selector,  *)
(* and derives the lifecycle totals, the time series, the district         *)
(* aggregate with its population floor, the intensity ranking, the state   *)
(* ranking, the growth ranking, the spike alerts and the correlation.      *)
(*                                                                         *)
(* Tables are sequences of records (pandas keeps row order and duplicate   *)
(* rows).  Dates are integers month*100 + day.  Ratios are exact rationals *)
(* tagged with the float outcomes numpy produces for a zero denominator    *)
(* (nan, inf).  float64 rounding is modelled where it can decide a         *)
(* comparison: a z-score whose exact value is 3 may compare either way     *)
(* with the threshold 3.                                                   *)
(***************************************************************************)
EXTENDS Integers, Sequences, FiniteSets, TLC

VARIABLES
    biometric, enrolment, demographic,      \* load_data()
    date_range, state,                      \* sidebar widgets
    biometric_f, enrolment_f, demographic_f,
    total_population, total_enrolments, total_biometrics,
    enrol_ts, bio_ts,
    merged, national_rate, top_districts,
    state_agg, top_states,
    monthly, trend,
    latest_month, spikes,
    corr_df, lead_corr, corr_vals,
    pc

inputs == <<biometric, enrolment, demographic, date_range, state>>
filtered == <<biometric_f, enrolment_f, demographic_f>>
overview == <<total_population, total_enrolments, total_biometrics>>
series == <<enrol_ts, bio_ts>>
geo == <<merged, national_rate, top_districts, state_agg, top_states>>
growth == <<monthly, trend>>
anomaly == <<latest_month, spikes>>
correlation == <<corr_df, lead_corr, corr_vals>>
vars == <<inputs, filtered, overview, series, geo, growth, anomaly, correlation, pc>>

---------------------------------------------------------------------------
(* Bounds of the model and constants of the program.                       *)

MaxMonths == 12          \* calendar months covered by the loaded data
PopulationFloor == 10000 \* merged["population"] > 10_000
TopN == 10               \* .head(10)
SpikeThreshold == 3      \* monthly["z_score"] > 3

StateNames == <<"S1", "S2">>
DistrictNames == <<"A", "B", "C">>
AllStates == "All"

\* Lexicographic rank of a state or district name (pandas sorts group keys).
Rank(names, x) == CHOOSE i \in 1..Len(names) : names[i] = x

\* Dates: the first and the fifteenth day of month m, and
\* dt.to_period("M").dt.to_timestamp(), the first day of a date's month.
FirstOf(m) == m * 100 + 1
MidOf(m) == m * 100 + 15
ToMonth(date) == (date \div 100) * 100 + 1
NaT == 0

---------------------------------------------------------------------------
(* Generic helpers.                                                        *)

Range(s) == {s[i] : i \in 1..Len(s)}

Min2(a, b) == IF a <= b THEN a ELSE b

Abs(a) == IF a < 0 THEN -a ELSE a

RECURSIVE Gcd(_, _)
Gcd(a, b) == IF b = 0 THEN a ELSE Gcd(b, a % b)

\* Series.sum() of a column: F(row) summed over the rows; 0 for no rows.
SumCol(s, F(_)) ==
    LET S[i \in 0..Len(s)] == IF i = 0 THEN 0 ELSE S[i - 1] + F(s[i])
    IN S[Len(s)]

\* Ascending sequence of a finite set of integers.
RECURSIVE SetToSortedSeq(_)
SetToSortedSeq(S) ==
    IF S = {} THEN <<>>
    ELSE LET m == CHOOSE x \in S : \A y \in S : x <= y
         IN <<m>> \o SetToSortedSeq(S \ {m})

RECURSIVE Concat(_)
Concat(ss) == IF ss = <<>> THEN <<>> ELSE Head(ss) \o Concat(Tail(ss))

---------------------------------------------------------------------------
(* float64 results of a division: a finite rational (kept exact, in lowest *)
(* terms, den > 0), nan (0/0) or +-inf (x/0).                              *)

NaN == [kind |-> "nan", num |-> 0, den |-> 1]
Inf(sign) == [kind |-> "inf", num |-> sign, den |-> 1]
Rat(a, b) ==
    LET g == Gcd(Abs(a), Abs(b))
        sg == IF b < 0 THEN -1 ELSE 1
    IN [kind |-> "num", num |-> sg * (a \div g), den |-> sg * (b \div g)]

CorrNaN == [kind |-> "nan", cov |-> 0, vx |-> 0, vy |-> 0]

IsNaN(x) == x.kind = "nan"
IsFinite(x) == x.kind = "num"

\* numpy int64 / int64 true division: never raises, a zero denominator
\* gives nan or inf.
Raised == [kind |-> "ZeroDivisionError", num |-> 0, den |-> 1]
PyDivide(a, b) == IF b = 0 THEN Raised ELSE Rat(a, b)
NpDivide(a, b) ==
    IF b # 0 THEN Rat(a, b)
    ELSE IF a = 0 THEN NaN
    ELSE Inf(IF a > 0 THEN 1 ELSE -1)

\* float / float; the quotient of two rationals is reduced crosswise
\* before it is multiplied out.
FDivide(x, y) ==
    IF IsNaN(x) \/ IsNaN(y) THEN NaN
    ELSE IF x.kind = "inf" /\ y.kind = "inf" THEN NaN
    ELSE IF x.kind = "inf" THEN Inf(IF y.num < 0 THEN -x.num ELSE x.num)
    ELSE IF y.kind = "inf" THEN Rat(0, 1)
    ELSE IF y.num = 0 THEN (IF x.num = 0 THEN NaN
                            ELSE Inf(IF x.num > 0 THEN 1 ELSE -1))
    ELSE IF x.num = 0 THEN Rat(0, 1)
    ELSE LET g == Gcd(Abs(x.num), Abs(y.num))
             h == Gcd(x.den, y.den)
         IN Rat((x.num \div g) * (y.den \div h), (x.den \div h) * (y.num \div g))

\* a/b > c/d for b > 0 and d > 0, by the integer parts and then the
\* remainders (no product is formed).
RECURSIVE RatGreater(_, _, _, _)
RatGreater(a, b, c, d) ==
    IF a \div b # c \div d THEN a \div b > c \div d
    ELSE IF a % b = 0 THEN FALSE
    ELSE IF c % d = 0 THEN TRUE
    ELSE RatGreater(d, c % d, b, a % b)

\* x > y on floats; any comparison with nan is False.
FGreater(x, y) ==
    IF IsNaN(x) \/ IsNaN(y) THEN FALSE
    ELSE IF x.kind = "inf" THEN x.num > 0 /\ ~(y.kind = "inf" /\ y.num > 0)
    ELSE IF y.kind = "inf" THEN y.num < 0
    ELSE RatGreater(x.num, x.den, y.num, y.den)

---------------------------------------------------------------------------
(* Loaded data.  Each (state, district) key gets its rows from a small     *)
(* profile; the tables are the concatenation of the keys' rows.            *)

KeyA == [state |-> "S1", district |-> "A"]
KeyB == [state |-> "S1", district |-> "B"]
KeyC == [state |-> "S2", district |-> "C"]

BioRow(k, date, young, adult) ==
    [date |-> date, state |-> k.state, district |-> k.district,
     bio_age_5_17 |-> young, bio_age_17_ |-> adult]

\* A key's biometric rows: n months, step months apart, ending at month
\* endm; the monthly total is base, and last in the final month, whose
\* total is spread over two dates.  The rows are listed latest first (a
\* CSV is in no particular order).
BioRows(k, prof) ==
    IF prof.n = 0 THEN <<>>
    ELSE <<BioRow(k, MidOf(prof.endm), 0, prof.last - (prof.last \div 5)),
           BioRow(k, FirstOf(prof.endm), prof.last \div 5, 0)>>
         \o [j \in 1..(prof.n - 1) |->
               BioRow(k, FirstOf(prof.endm - j * prof.step),
                      prof.base \div 5, prof.base - (prof.base \div 5))]

Profile(n, base, last, endm, step) ==
    [n |-> n, base |-> base, last |-> last, endm |-> endm, step |-> step]
NoRows == Profile(0, 0, 0, MaxMonths, 1)

DemoRow(k, date, young, adult) ==
    [date |-> date, state |-> k.state, district |-> k.district,
     demo_age_5_17 |-> young, demo_age_17_ |-> adult]

\* Population p of a key, split over the first and the last date; p = 0
\* stands for a key with no demographic row at all.
DemoRows(k, p) ==
    IF p = 0 THEN <<>>
    ELSE <<DemoRow(k, FirstOf(1), p \div 5, (2 * p) \div 5),
           DemoRow(k, MidOf(MaxMonths), 0, p - (p \div 5) - ((2 * p) \div 5))>>

EnrRow(k, date, a, b, c) ==
    [date |-> date, state |-> k.state, district |-> k.district,
     age_0_5 |-> a, age_5_17 |-> b, age_18_greater |-> c]

EnrRows(k, present, adults) ==
    IF ~present THEN <<>>
    ELSE <<EnrRow(k, FirstOf(1), 1, 2, adults),
           EnrRow(k, FirstOf(MaxMonths - 1), 2, 0, 2 * adults),
           EnrRow(k, FirstOf(MaxMonths), 0, 1, adults + 1)>>

\* biometric["date"].min() and .max(), the limits of the date widget.
min_date(bio) == CHOOSE d \in {r.date : r \in Range(bio)} :
                    \A r \in Range(bio) : d <= r.date
max_date(bio) == CHOOSE d \in {r.date : r \in Range(bio)} :
                    \A r \in Range(bio) : d >= r.date

\* st.sidebar.date_input with a range value returns the dates picked so
\* far, each within [min_date, max_date]: a pair, or a 1-tuple while only
\* the start has been picked.  The pair is supplied by the caller; the
\* pipeline itself accepts any pair, start > end included.
DateRanges(bio) ==
    LET lo == min_date(bio)
        hi == max_date(bio)
    IN { <<lo, hi>>, <<lo, ToMonth(hi)>>, <<hi, lo>>, <<lo>> }
       \cup { <<FirstOf(2), hi>> : x \in {y \in {1} : lo <= FirstOf(2) /\ FirstOf(2) <= hi} }

\* st.sidebar.selectbox: "All" or one of the states of the biometric table.
StateOptions(bio) == {AllStates} \cup {r.state : r \in Range(bio)}

\* The state after construction: the tables are loaded, the widgets have a
\* value, nothing is derived yet.
Loaded(bioA, bioB, bioC, popA, popB, popC, enrA, enrC) ==
    /\ biometric = BioRows(KeyB, bioB) \o BioRows(KeyA, bioA) \o BioRows(KeyC, bioC)
    /\ Len(biometric) > 0
    /\ demographic = DemoRows(KeyA, popA) \o DemoRows(KeyB, popB) \o DemoRows(KeyC, popC)
    /\ enrolment = EnrRows(KeyC, enrC, 3) \o EnrRows(KeyA, enrA, 5) \o EnrRows(KeyB, TRUE, 2)
    /\ date_range \in DateRanges(biometric)
    /\ state \in StateOptions(biometric)
    /\ biometric_f = <<>> /\ enrolment_f = <<>> /\ demographic_f = <<>>
    /\ total_population = 0 /\ total_enrolments = 0 /\ total_biometrics = 0
    /\ enrol_ts = <<>> /\ bio_ts = <<>>
    /\ merged = <<>> /\ national_rate = NaN /\ top_districts = <<>>
    /\ state_agg = <<>> /\ top_states = <<>>
    /\ monthly = <<>> /\ trend = <<>>
    /\ latest_month = NaT /\ spikes = <<>>
    /\ corr_df = <<>> /\ lead_corr = CorrNaN /\ corr_vals = <<>>
    /\ pc = "filters"

\* Monthly totals of district A: base in every month but the last.
Patterns == { <<100, 500>>, <<100, 110>>, <<100, 100>>, <<0, 500>>, <<100, 200>>,
              <<0, 203>> }

\* Inputs that vary the monthly biometric series.
InitSeries ==
    \E endm \in {MaxMonths - 1, MaxMonths} :
    \E n \in 0..endm, pat \in Patterns :
    \E bioB \in { NoRows, Profile(MaxMonths, 1000, 1000, MaxMonths, 1),
                  Profile(2, 0, 500, 2, 1) } :
    \E bioC \in { NoRows, Profile(1, 0, 1000, MaxMonths, 1) } :
        Loaded(Profile(n, pat[1], pat[2], endm, 1), bioB, bioC,
               50000, 20000, 5000, TRUE, TRUE)

\* Inputs that vary the districts' populations and the tables they occur in.
InitGeo ==
    \E bioA \in { NoRows, Profile(2, 0, 1000, MaxMonths, MaxMonths - 1),
                  Profile(2, 400, 600, MaxMonths, MaxMonths - 1),
                  Profile(2, 0, 0, MaxMonths, MaxMonths - 1) } :
    \E bioB \in { Profile(2, 400, 600, MaxMonths, MaxMonths - 1),
                  Profile(2, 0, 0, MaxMonths, MaxMonths - 1) } :
    \E bioC \in { NoRows, Profile(1, 0, 1000, MaxMonths, 1) } :
    \E popA \in {0, 5000, 10000, 50000}, popB \in {0, 20000}, popC \in {5000, 20000} :
    \E enrA \in BOOLEAN, enrC \in BOOLEAN :
        Loaded(bioA, bioB, bioC, popA, popB, popC, enrA, enrC)

Init == InitSeries \/ InitGeo

---------------------------------------------------------------------------
(* Filters (lines 58-68).                                                  *)

\* apply_filters without its state test.
apply_date_filter(df) ==
    SelectSeq(df, LAMBDA r : r.date >= date_range[1] /\ r.date <= date_range[2])

\* apply_filters(df) for a pair date_range.
apply_filters(df) ==
    LET start == date_range[1]
        end == date_range[2]
        in_range == SelectSeq(df, LAMBDA r : r.date >= start /\ r.date <= end)
    IN IF state # AllStates
       THEN SelectSeq(in_range, LAMBDA r : r.state = state)
       ELSE in_range

\* "start, end = date_range" raises ValueError unless date_range is a pair.
Filters ==
    /\ pc = "filters"
    /\ \/ /\ Len(date_range) # 2
          /\ pc' = "ValueError"
          /\ UNCHANGED filtered
       \/ /\ Len(date_range) = 2
          /\ biometric_f' = apply_filters(biometric)
          /\ enrolment_f' = apply_filters(enrolment)
          /\ demographic_f' = apply_filters(demographic)
          /\ pc' = "overview"
    /\ UNCHANGED <<inputs, overview, series, geo, growth, anomaly, correlation>>

---------------------------------------------------------------------------
(* Aadhaar Lifecycle Overview (lines 75-85).                               *)

Overview ==
    /\ pc = "overview"
    /\ total_population' =
          SumCol(demographic_f, LAMBDA r : r.demo_age_5_17)
          + SumCol(demographic_f, LAMBDA r : r.demo_age_17_)
    /\ total_enrolments' =
          SumCol(enrolment_f, LAMBDA r : r.age_0_5)
          + SumCol(enrolment_f, LAMBDA r : r.age_5_17)
          + SumCol(enrolment_f, LAMBDA r : r.age_18_greater)
    /\ total_biometrics' =
          SumCol(biometric_f, LAMBDA r : r.bio_age_5_17)
          + SumCol(biometric_f, LAMBDA r : r.bio_age_17_)
    /\ pc' = "trends"
    /\ UNCHANGED <<inputs, filtered, series, geo, growth, anomaly, correlation>>

---------------------------------------------------------------------------
(* Enrolment and biometric trends (lines 102-104, 120-122).                *)

\* df.groupby("date", as_index=False)[cols].sum(): one row per date
\* present, in ascending date order.
EnrolByDate(df) ==
    LET ds == SetToSortedSeq({r.date : r \in Range(df)})
    IN [i \in 1..Len(ds) |->
          LET g == SelectSeq(df, LAMBDA r : r.date = ds[i])
          IN [date |-> ds[i],
              age_0_5 |-> SumCol(g, LAMBDA r : r.age_0_5),
              age_5_17 |-> SumCol(g, LAMBDA r : r.age_5_17),
              age_18_greater |-> SumCol(g, LAMBDA r : r.age_18_greater)]]

BioByDate(df) ==
    LET ds == SetToSortedSeq({r.date : r \in Range(df)})
    IN [i \in 1..Len(ds) |->
          LET g == SelectSeq(df, LAMBDA r : r.date = ds[i])
          IN [date |-> ds[i],
              bio_age_5_17 |-> SumCol(g, LAMBDA r : r.bio_age_5_17),
              bio_age_17_ |-> SumCol(g, LAMBDA r : r.bio_age_17_)]]

Trends ==
    /\ pc = "trends"
    /\ enrol_ts' = EnrolByDate(enrolment_f)
    /\ bio_ts' = BioByDate(biometric_f)
    /\ pc' = "aggregation"
    /\ UNCHANGED <<inputs, filtered, overview, geo, growth, anomaly, correlation>>

---------------------------------------------------------------------------
(* District-level aggregation (lines 145-155).                             *)

KeyCode(r) == Rank(StateNames, r.state) * 100 + Rank(DistrictNames, r.district)
SameKey(a, b) == a.state = b.state /\ a.district = b.district

\* The (state, district) keys of a table, ascending: the order in which
\* groupby(["state", "district"]) lists its groups.
GroupKeys(df) ==
    LET codes == SetToSortedSeq({KeyCode(r) : r \in Range(df)})
    IN [i \in 1..Len(codes) |->
          CHOOSE k \in {[state |-> r.state, district |-> r.district] : r \in Range(df)} :
              KeyCode(k) = codes[i]]

demo_d ==
    LET ks == GroupKeys(demographic_f)
    IN [i \in 1..Len(ks) |->
          LET g == SelectSeq(demographic_f, LAMBDA r : SameKey(r, ks[i]))
          IN [state |-> ks[i].state, district |-> ks[i].district,
              demo_age_5_17 |-> SumCol(g, LAMBDA r : r.demo_age_5_17),
              demo_age_17_ |-> SumCol(g, LAMBDA r : r.demo_age_17_)]]

bio_d ==
    LET ks == GroupKeys(biometric_f)
    IN [i \in 1..Len(ks) |->
          LET g == SelectSeq(biometric_f, LAMBDA r : SameKey(r, ks[i]))
          IN [state |-> ks[i].state, district |-> ks[i].district,
              bio_age_5_17 |-> SumCol(g, LAMBDA r : r.bio_age_5_17),
              bio_age_17_ |-> SumCol(g, LAMBDA r : r.bio_age_17_)]]

enr_d ==
    LET ks == GroupKeys(enrolment_f)
    IN [i \in 1..Len(ks) |->
          LET g == SelectSeq(enrolment_f, LAMBDA r : SameKey(r, ks[i]))
          IN [state |-> ks[i].state, district |-> ks[i].district,
              age_0_5 |-> SumCol(g, LAMBDA r : r.age_0_5),
              age_5_17 |-> SumCol(g, LAMBDA r : r.age_5_17),
              age_18_greater |-> SumCol(g, LAMBDA r : r.age_18_greater)]]

\* left.merge(right, on=["state", "district"], how="outer"), for the
\* tables here, whose keys are unique: unmatched rows of either side are
\* kept, their missing counts filled with 0 in place of NaN.
OuterMerge(left, right) ==
    LET blank == [bio_age_5_17 |-> 0, bio_age_17_ |-> 0,
                  age_0_5 |-> 0, age_5_17 |-> 0, age_18_greater |-> 0,
                  demo_age_5_17 |-> 0, demo_age_17_ |-> 0]
        only_right == SelectSeq(right, LAMBDA r : \A i \in 1..Len(left) : ~SameKey(left[i], r))
    IN Concat([i \in 1..Len(left) |->
                 LET m == SelectSeq(right, LAMBDA r : SameKey(left[i], r))
                 IN IF m = <<>> THEN <<left[i] @@ blank>>
                    ELSE [j \in 1..Len(m) |-> left[i] @@ m[j]]])
       \o [j \in 1..Len(only_right) |-> only_right[j] @@ blank]

\* left.merge(right, on=["state", "district"]): an inner join, the rows in
\* the order of the left table, each with every matching right row.
Merge(left, right) ==
    Concat([i \in 1..Len(left) |->
              LET m == SelectSeq(right, LAMBDA r : SameKey(left[i], r))
              IN [j \in 1..Len(m) |-> left[i] @@ m[j]]])

\* Lines 149-153: the join and its three derived columns.
Joined ==
    LET j == Merge(Merge(demo_d, bio_d), enr_d)
    IN [i \in 1..Len(j) |->
          j[i] @@ [population |-> j[i].demo_age_5_17 + j[i].demo_age_17_,
                   biometrics |-> j[i].bio_age_5_17 + j[i].bio_age_17_,
                   enrolments |-> j[i].age_0_5 + j[i].age_5_17 + j[i].age_18_greater]]

Aggregation ==
    /\ pc = "aggregation"
    /\ merged' = Joined
    /\ pc' = "floor"
    /\ UNCHANGED <<national_rate, top_districts, state_agg, top_states>>
    /\ UNCHANGED <<inputs, filtered, overview, series, growth, anomaly, correlation>>

\* Line 155: merged = merged[merged["population"] > 10_000].
AtOrAboveFloor(r) == r.population >= PopulationFloor
AboveFloor(r) == r.population > PopulationFloor

Floor ==
    /\ pc = "floor"
    /\ merged' = SelectSeq(merged, AboveFloor)
    /\ pc' = "hubs"
    /\ UNCHANGED <<national_rate, top_districts, state_agg, top_states>>
    /\ UNCHANGED <<inputs, filtered, overview, series, growth, anomaly, correlation>>

---------------------------------------------------------------------------
(* sort_values(col, ascending=False).head(10).                             *)

\* Row i is listed before row j: the greater score first, nan last, rows
\* of equal score in their original order.
Before(sc, i, j) ==
    IF IsNaN(sc[i]) /\ IsNaN(sc[j]) THEN i < j
    ELSE IF IsNaN(sc[i]) THEN FALSE
    ELSE IF IsNaN(sc[j]) THEN TRUE
    ELSE FGreater(sc[i], sc[j]) \/ (~FGreater(sc[j], sc[i]) /\ i < j)

SortDescHead(rows, Score(_), n) ==
    LET sc == [i \in 1..Len(rows) |-> Score(rows[i])]
        perm == [k \in 1..Len(rows) |->
                    CHOOSE i \in 1..Len(rows) :
                        Cardinality({j \in 1..Len(rows) : j # i /\ Before(sc, j, i)}) = k - 1]
    IN [k \in 1..Min2(n, Len(rows)) |-> rows[perm[k]]]

---------------------------------------------------------------------------
(* Insight 1: service hubs (lines 162-169).                                *)

\* (biometrics / population) / national_rate, lines 163-165.
IntensityIndex(r, rate) == FDivide(NpDivide(r.biometrics, r.population), rate)

\* A division that raised would end the run (the script has no handler).
Hubs ==
    /\ pc = "hubs"
    /\ national_rate' = NpDivide(SumCol(merged, LAMBDA r : r.biometrics),
                                 SumCol(merged, LAMBDA r : r.population))
    /\ merged' = IF national_rate' = Raised THEN merged
                 ELSE [i \in 1..Len(merged) |->
                         merged[i] @@ [biometric_intensity_index |->
                                         IntensityIndex(merged[i], national_rate')]]
    /\ top_districts' = IF national_rate' = Raised THEN top_districts
                        ELSE SortDescHead(merged', LAMBDA r : r.biometric_intensity_index, TopN)
    /\ pc' = IF national_rate' = Raised THEN "ZeroDivisionError" ELSE "states"
    /\ UNCHANGED <<state_agg, top_states>>
    /\ UNCHANGED <<inputs, filtered, overview, series, growth, anomaly, correlation>>

---------------------------------------------------------------------------
(* Insight 2: state-level usage (lines 190-198).                           *)

StateAgg(df) ==
    LET ranks == SetToSortedSeq({Rank(StateNames, r.state) : r \in Range(df)})
        rows == [i \in 1..Len(ranks) |->
                   LET g == SelectSeq(df, LAMBDA r : r.state = StateNames[ranks[i]])
                       pop == SumCol(g, LAMBDA r : r.population)
                       bio == SumCol(g, LAMBDA r : r.biometrics)
                   IN [state |-> StateNames[ranks[i]], population |-> pop,
                       biometrics |-> bio,
                       biometric_per_capita |-> NpDivide(bio, pop)]]
    IN SelectSeq(rows, LAMBDA r : ~IsNaN(r.biometric_per_capita))   \* dropna()

States ==
    /\ pc = "states"
    /\ state_agg' = StateAgg(merged)
    /\ top_states' = SortDescHead(state_agg', LAMBDA r : r.biometric_per_capita, TopN)
    /\ pc' = "growth"
    /\ UNCHANGED <<merged, national_rate, top_districts>>
    /\ UNCHANGED <<inputs, filtered, overview, series, growth, anomaly, correlation>>

---------------------------------------------------------------------------
(* Insight 3: growth indicator (lines 211-228).                            *)

MonthCode(district, month) == Rank(DistrictNames, district) * 100000 + month

\* The (district, month) pairs in the order of their first row, as
\* groupby(..., sort=False) would list them.
RECURSIVE FirstSeen(_, _)
FirstSeen(codes, seen) ==
    IF codes = <<>> THEN <<>>
    ELSE IF Head(codes) \in seen THEN FirstSeen(Tail(codes), seen)
    ELSE <<Head(codes)>> \o FirstSeen(Tail(codes), seen \cup {Head(codes)})
MonthKeysUnsorted(df) ==
    FirstSeen([i \in 1..Len(df) |-> MonthCode(df[i].district, ToMonth(df[i].date))], {})

\* groupby(["district", "month"]) lists its groups in ascending key order.
MonthKeys(df) ==
    SetToSortedSeq({MonthCode(r.district, ToMonth(r.date)) : r \in Range(df)})

\* Lines 211-218: the monthly series, one row per (district, month).
Monthly(df) ==
    LET ks == MonthKeys(df)
    IN [i \in 1..Len(ks) |->
          LET g == SelectSeq(df, LAMBDA r : MonthCode(r.district, ToMonth(r.date)) = ks[i])
              young == SumCol(g, LAMBDA r : r.bio_age_5_17)
              adult == SumCol(g, LAMBDA r : r.bio_age_17_)
          IN [district |-> g[1].district, month |-> ToMonth(g[1].date),
              bio_age_5_17 |-> young, bio_age_17_ |-> adult,
              biometrics_total |-> young + adult]]

\* Line 225: trend = trend[trend["first_val"] > 0].
HasBaseline(r) == r.first_val > 0

\* Lines 220-228: first and last row of each district's group, the
\* baseline filter, the growth rate and the ranking.
Trend(m) ==
    LET ranks == SetToSortedSeq({Rank(DistrictNames, r.district) : r \in Range(m)})
        ends == [i \in 1..Len(ranks) |->
                   LET g == SelectSeq(m, LAMBDA r : r.district = DistrictNames[ranks[i]])
                   IN [district |-> DistrictNames[ranks[i]],
                       first_val |-> g[1].biometrics_total,
                       last_val |-> g[Len(g)].biometrics_total]]
        kept == SelectSeq(ends, HasBaseline)
        rated == [i \in 1..Len(kept) |->
                    kept[i] @@ [growth_rate |->
                                  NpDivide(kept[i].last_val - kept[i].first_val,
                                           kept[i].first_val)]]
    IN SortDescHead(rated, LAMBDA r : r.growth_rate, TopN)

Growth ==
    /\ pc = "growth"
    /\ monthly' = Monthly(biometric_f)
    /\ trend' = Trend(monthly')
    /\ pc' = "anomaly"
    /\ UNCHANGED <<inputs, filtered, overview, series, geo, anomaly, correlation>>

---------------------------------------------------------------------------
(* Insight 4: anomaly detection (lines 246-251).                           *)

\* The rows zscore() is computed over for a row: the whole table, as a
\* transform without the groupby would take them.
ZGroupGlobal(m, row) == m
\* groupby("district")[...].transform: the rows of the row's own district.
ZGroup(m, row) == SelectSeq(m, LAMBDA r : r.district = row.district)

ZNaN == [kind |-> "nan", dev |-> 0, varn |-> 0, exact |-> TRUE, ulp |-> 0]

RECURSIVE IsPowerOfTwo(_)
IsPowerOfTwo(d) == d = 1 \/ (d > 1 /\ d % 2 = 0 /\ IsPowerOfTwo(d \div 2))

\* S / n is a float64 exactly: the mean a.mean() returns is the true mean.
MeanExact(S, n) == IsPowerOfTwo(n \div Gcd(S, n))

\* zscore of a constant group with 0 in place of nan.
ZScoreGuarded(g, x) ==
    LET n == Len(g)
        S == SumCol(g, LAMBDA r : r.biometrics_total)
        Q == SumCol(g, LAMBDA r : r.biometrics_total * r.biometrics_total)
        varn == n * Q - S * S
    IN [kind |-> "num", dev |-> n * x - S, varn |-> IF varn = 0 THEN 1 ELSE varn,
        exact |-> TRUE, ulp |-> 0]

\* scipy.stats.zscore (ddof = 0) of x within g: with n = len(g), S the sum
\* and Q the sum of squares, the exact value is
\* z = (n*x - S) / sqrt(n*Q - S*S), and the result is nan for a constant g
\* (0/0).  exact: the float64 mean is the true mean; ulp = 1: the float64
\* result lies above the exact value.
ZScore(g, x) ==
    LET n == Len(g)
        S == SumCol(g, LAMBDA r : r.biometrics_total)
        Q == SumCol(g, LAMBDA r : r.biometrics_total * r.biometrics_total)
        varn == n * Q - S * S
    IN IF varn = 0 THEN ZNaN
       ELSE [kind |-> "num", dev |-> n * x - S, varn |-> varn,
             exact |-> MeanExact(S, n), ulp |-> 0]

\* The float64 z exceeds t: its exact value does, or equals t and was
\* rounded up.
ZExceeds(z, t) ==
    /\ z.kind = "num"
    /\ z.dev > 0
    /\ \/ z.dev * z.dev > t * t * z.varn
       \/ z.dev * z.dev = t * t * z.varn /\ z.ulp = 1

\* The exact z equals the threshold and the mean is rounded: the float64
\* rounding of the mean, the standard deviation and the quotient decides
\* the comparison (nine months of 0 and one of 203 give
\* 3.0000000000000004).  With an exact mean the deviations, their squares
\* and the standard deviation are exact too, and z is 3.0.
OnThreshold(z) ==
    /\ z.kind = "num" /\ z.dev > 0
    /\ z.dev * z.dev = SpikeThreshold * SpikeThreshold * z.varn
    /\ ~z.exact

\* monthly["month"].max(); NaT for no rows.
LatestMonth(m) ==
    IF m = <<>> THEN NaT
    ELSE CHOOSE x \in {r.month : r \in Range(m)} : \A r \in Range(m) : x >= r.month

\* Line 251, with the month test left out.
IsSpikeAnyMonth(r, latest) == ZExceeds(r.z_score, SpikeThreshold)
\* Line 251, with a threshold of 2.
IsSpikeAboveTwo(r, latest) == r.month = latest /\ ZExceeds(r.z_score, SpikeThreshold - 1)
IsSpike(r, latest) == r.month = latest /\ ZExceeds(r.z_score, SpikeThreshold)

Anomaly ==
    /\ pc = "anomaly"
    /\ LET z == [i \in 1..Len(monthly) |->
                    ZScore(ZGroup(monthly, monthly[i]), monthly[i].biometrics_total)]
           ties == {i \in 1..Len(monthly) : OnThreshold(z[i])}
       IN \E up \in SUBSET ties :
             monthly' = [i \in 1..Len(monthly) |->
                           monthly[i] @@ [z_score |->
                              [z[i] EXCEPT !.ulp = IF i \in up THEN 1 ELSE 0]]]
    /\ latest_month' = LatestMonth(monthly')
    /\ spikes' = SelectSeq(monthly', LAMBDA r : IsSpike(r, latest_month'))
    /\ pc' = "correlation"
    /\ UNCHANGED trend
    /\ UNCHANGED <<inputs, filtered, overview, series, geo, correlation>>

---------------------------------------------------------------------------
(* Insight 5: lead-indicator correlation (lines 262-284).                  *)

\* Lines 262-270: adult enrolments and adult biometrics per date, joined
\* on the dates both have, in the order of the enrolment dates.
CorrDf ==
    LET e == EnrolByDate(enrolment_f)
        b == BioByDate(biometric_f)
    IN Concat([i \in 1..Len(e) |->
                 LET m == SelectSeq(b, LAMBDA r : r.date = e[i].date)
                 IN [j \in 1..Len(m) |->
                       [date |-> e[i].date, age_18_greater |-> e[i].age_18_greater,
                        bio_age_17_ |-> m[j].bio_age_17_]]])

\* Pearson correlation cov / sqrt(vx * vy), the three scaled by n*n; nan
\* for fewer than two rows or a constant column.
Pearson(df) ==
    LET n == Len(df)
        sx == SumCol(df, LAMBDA r : r.age_18_greater)
        sy == SumCol(df, LAMBDA r : r.bio_age_17_)
        vx == n * SumCol(df, LAMBDA r : r.age_18_greater * r.age_18_greater) - sx * sx
        vy == n * SumCol(df, LAMBDA r : r.bio_age_17_ * r.bio_age_17_) - sy * sy
        cov == n * SumCol(df, LAMBDA r : r.age_18_greater * r.bio_age_17_) - sx * sy
    IN IF n < 2 \/ vx = 0 \/ vy = 0 THEN CorrNaN
       ELSE [kind |-> "num", cov |-> cov, vx |-> vx, vy |-> vy]

Correlation ==
    /\ pc = "correlation"
    /\ corr_df' = CorrDf
    /\ lead_corr' = Pearson(corr_df')
    /\ corr_vals' = <<[column |-> "age_18_greater", value |-> Pearson(corr_df')]>>
    /\ pc' = "done"
    /\ UNCHANGED <<inputs, filtered, overview, series, geo, growth, anomaly>>

---------------------------------------------------------------------------
Next ==
    \/ Filters
    \/ Overview
    \/ Trends
    \/ Aggregation
    \/ Floor
    \/ Hubs
    \/ States
    \/ Growth
    \/ Anomaly
    \/ Correlation

Spec == Init /\ [][Next]_vars


(* Vocabulary of the properties.                                           *)

Steps == <<"filters", "overview", "trends", "aggregation", "floor", "hubs",
           "states", "growth", "anomaly", "correlation", "done">>
Running == pc \in Range(Steps)
\* The step named p has been carried out in this run.
Past(p) == Running /\ Rank(Steps, pc) > Rank(Steps, p)

AllKeys == {KeyA, KeyB, KeyC}
Districts == Range(DistrictNames)

HasKey(df, k) == \E i \in 1..Len(df) : SameKey(df[i], k)
InAllThree(k) ==
    HasKey(demographic_f, k) /\ HasKey(biometric_f, k) /\ HasKey(enrolment_f, k)
RowsOfKey(df, k) == SelectSeq(df, LAMBDA r : SameKey(r, k))

\* Population and biometric count of a key, summed over the filtered window.
PopulationOf(k) ==
    SumCol(RowsOfKey(demographic_f, k), LAMBDA r : r.demo_age_5_17 + r.demo_age_17_)
BiometricsOf(k) ==
    SumCol(RowsOfKey(biometric_f, k), LAMBDA r : r.bio_age_5_17 + r.bio_age_17_)

\* The months in which district d has a filtered biometric row, and its
\* biometric total in month m.
MonthsOf(d) == {ToMonth(r.date) : r \in {x \in Range(biometric_f) : x.district = d}}
TotalIn(d, m) ==
    SumCol(SelectSeq(biometric_f, LAMBDA r : r.district = d /\ ToMonth(r.date) = m),
           LAMBDA r : r.bio_age_5_17 + r.bio_age_17_)
EarliestOf(d) == CHOOSE m \in MonthsOf(d) : \A x \in MonthsOf(d) : m <= x
LatestOf(d) == CHOOSE m \in MonthsOf(d) : \A x \in MonthsOf(d) : m >= x
GlobalLatest == CHOOSE m \in {ToMonth(r.date) : r \in Range(biometric_f)} :
                    \A r \in Range(biometric_f) : m >= ToMonth(r.date)
\* The monthly totals of district d, earliest month first.
SeriesOf(d) ==
    LET ms == SetToSortedSeq(MonthsOf(d))
    IN [i \in 1..Len(ms) |-> TotalIn(d, ms[i])]
IsConstant(q) == \A i \in 1..Len(q) : q[i] = q[1]

RowOf(d, m) == CHOOSE r \in Range(monthly) : r.district = d /\ r.month = m
Spiked(d) == \E r \in Range(spikes) : r.district = d

---------------------------------------------------------------------------
(* C1: apply_filters returns only rows of its input, each with a date in   *)
(* [start, end] and, unless the selector is "All", with the selected       *)
(* state; with start > end, or a selected state that occurs in no row of   *)
(* the table, the result is empty and nothing is raised.                   *)

FilterSound(df, out) ==
    /\ \A i \in 1..Len(out) :
          /\ out[i] \in Range(df)
          /\ date_range[1] <= out[i].date /\ out[i].date <= date_range[2]
          /\ state # AllStates => out[i].state = state
    /\ date_range[1] > date_range[2] => out = <<>>
    /\ (state # AllStates /\ \A r \in Range(df) : r.state # state) => out = <<>>

C1_FilterSound ==
    /\ Len(date_range) = 2 => pc # "ValueError"
    /\ Past("filters") =>
          /\ FilterSound(biometric, biometric_f)
          /\ FilterSound(enrolment, enrolment_f)
          /\ FilterSound(demographic, demographic_f)

\* A run that selects S2: the date range removes some of the S2 biometric
\* rows, and the enrolment table has no S2 row at all.
C1_Witness ==
    /\ pc = "done" /\ state = "S2"
    /\ biometric_f # <<>>
    /\ Len(biometric_f) < Len(SelectSeq(biometric, LAMBDA r : r.state = "S2"))
    /\ enrolment # <<>> /\ \A r \in Range(enrolment) : r.state # "S2"
    /\ enrolment_f = <<>>

---------------------------------------------------------------------------
(* C2: the district aggregate is an inner join on (state, district): a key *)
(* with no row in one of the three filtered tables has no row in merged,   *)
(* and a key with rows in all three has exactly one row before the         *)
(* population floor is applied.                                            *)

C2_InnerJoin ==
    /\ pc = "floor" =>
          \A k \in AllKeys :
              Len(RowsOfKey(merged, k)) = IF InAllThree(k) THEN 1 ELSE 0
    /\ Past("aggregation") =>
          \A i \in 1..Len(merged) :
              /\ InAllThree(merged[i])
              /\ Len(RowsOfKey(merged, merged[i])) = 1

C2_Witness ==
    /\ pc = "floor"
    /\ merged # <<>>
    /\ \E k \in AllKeys : HasKey(biometric_f, k) /\ HasKey(enrolment_f, k)
                           /\ ~HasKey(demographic_f, k)
    /\ \E k \in AllKeys : HasKey(biometric_f, k) /\ ~HasKey(enrolment_f, k)
                           /\ HasKey(demographic_f, k)

---------------------------------------------------------------------------
(* C3: as claimed, a district of the aggregate whose summed population is  *)
(* at most 10,000 is in none of the rankings: not in the intensity         *)
(* ranking, not counted in the state ranking, not in the growth ranking.   *)

InTop(k) == \E i \in 1..Len(top_districts) : SameKey(top_districts[i], k)
InTrend(d) == \E i \in 1..Len(trend) : trend[i].district = d

\* The populations and biometric counts a state's ranking row is summed
\* from: those of its keys that are in all three tables and above the floor.
CountedKeys(st) ==
    {k \in AllKeys : k.state = st /\ InAllThree(k) /\ PopulationOf(k) > PopulationFloor}
RECURSIVE PopulationOver(_)
PopulationOver(ks) ==
    IF ks = {} THEN 0
    ELSE LET k == CHOOSE x \in ks : TRUE
         IN PopulationOf(k) + PopulationOver(ks \ {k})
RECURSIVE BiometricsOver(_)
BiometricsOver(ks) ==
    IF ks = {} THEN 0
    ELSE LET k == CHOOSE x \in ks : TRUE
         IN BiometricsOf(k) + BiometricsOver(ks \ {k})

Scenario ==
    /\ PopulationOf(KeyA) = 50000 /\ PopulationOf(KeyB) = 20000
    /\ PopulationOf(KeyC) = 5000
    /\ \A k \in AllKeys : InAllThree(k) /\ BiometricsOf(k) = 1000

---------------------------------------------------------------------------
(* C4: as claimed, a district with the monthly totals                      *)
(* [100, 100, 100, 100, 500], the last month being the latest month of all,*)
(* has a z-score above 3 in that month and is emitted as a spike, and with *)
(* [100, 100, 100, 100, 110] it is not emitted.                            *)

SpikeSeries == <<100, 100, 100, 100, 500>>
CalmSeries == <<100, 100, 100, 100, 110>>
EndsLatest(d) == MonthsOf(d) # {} /\ LatestOf(d) = GlobalLatest

C4_AsClaimed ==
    pc = "done" =>
        \A d \in Districts :
            /\ (SeriesOf(d) = SpikeSeries /\ EndsLatest(d)) =>
                  /\ ZExceeds(RowOf(d, LatestOf(d)).z_score, SpikeThreshold)
                  /\ Spiked(d)
            /\ (SeriesOf(d) = CalmSeries /\ EndsLatest(d)) => ~Spiked(d)

\* The exact z equals a / b, for a > 0 and b > 0.
ZEquals(z, a, b) ==
    z.kind = "num" /\ z.dev > 0 /\ b * b * z.dev * z.dev = a * a * z.varn

(* C4, amended: for both series the z-score of the last month is exactly   *)
(* 2 (the deviation of the last of five months from the mean is twice the  *)
(* population standard deviation), which does not exceed 3: neither        *)
(* district is emitted as a spike.                                         *)
C4_NeitherSpikes ==
    Past("anomaly") =>
        \A d \in Districts :
            (SeriesOf(d) \in {SpikeSeries, CalmSeries}) =>
                /\ ZEquals(RowOf(d, LatestOf(d)).z_score, 2, 1)
                /\ ~ZExceeds(RowOf(d, LatestOf(d)).z_score, SpikeThreshold)
                /\ ~Spiked(d)

C4_Witness ==
    /\ pc = "done"
    /\ SeriesOf("A") = SpikeSeries /\ EndsLatest("A")
    /\ MonthsOf("B") # {}
    /\ ~Spiked("A")

---------------------------------------------------------------------------
(* C5: every entry of the growth ranking has first_val equal to its        *)
(* district's total in its earliest observed month, last_val equal to the  *)
(* total in its latest observed month, first_val > 0 and growth_rate =     *)
(* (last_val - first_val) / first_val; a district whose earliest month has *)
(* the total 0 is not ranked; first_val = 100 and last_val = 200 give a    *)
(* growth of exactly 100%.                                                 *)

C5_GrowthRanking ==
    Past("growth") =>
        /\ \A i \in 1..Len(trend) :
              LET e == trend[i] IN
              /\ MonthsOf(e.district) # {}
              /\ e.first_val = TotalIn(e.district, EarliestOf(e.district))
              /\ e.last_val = TotalIn(e.district, LatestOf(e.district))
              /\ e.first_val > 0
              /\ e.growth_rate.kind = "num"
              /\ e.growth_rate.num * e.first_val
                    = (e.last_val - e.first_val) * e.growth_rate.den
              /\ (e.first_val = 100 /\ e.last_val = 200) => e.growth_rate = Rat(100, 100)
        /\ \A d \in Districts :
              (MonthsOf(d) # {} /\ TotalIn(d, EarliestOf(d)) = 0) => ~InTrend(d)

C5_Witness ==
    /\ pc = "done"
    /\ \E i \in 1..Len(trend) :
          /\ trend[i].first_val = 100 /\ trend[i].last_val = 200
          /\ Len(SeriesOf(trend[i].district)) > 2
    /\ \E d \in Districts :
          /\ MonthsOf(d) # {} /\ TotalIn(d, EarliestOf(d)) = 0
          /\ TotalIn(d, LatestOf(d)) = 500
          /\ ~InTrend(d)

---------------------------------------------------------------------------
(* C6: as claimed, a district whose total is the same in every observed    *)
(* month has the z-score 0 in every month: no undefined value is stored in *)
(* the z_score column.                                                     *)

Flat(d) == Len(SeriesOf(d)) >= 2 /\ IsConstant(SeriesOf(d))

C6_AsClaimed ==
    Past("anomaly") =>
        \A i \in 1..Len(monthly) :
            Flat(monthly[i].district) =>
                monthly[i].z_score.kind = "num" /\ monthly[i].z_score.dev = 0

(* C6, amended: such a district has the z-score nan (0/0, undefined) in    *)
(* every month, stored in the z_score column, and is never emitted as a    *)
(* spike.                                                                  *)
C6_FlatIsNaN ==
    Past("anomaly") =>
        \A i \in 1..Len(monthly) :
            Flat(monthly[i].district) =>
                /\ monthly[i].z_score.kind = "nan"
                /\ ~Spiked(monthly[i].district)

C6_Witness ==
    /\ pc = "done"
    /\ Flat("A") /\ EndsLatest("A") /\ SeriesOf("A")[1] > 0
    /\ \E d \in Districts : MonthsOf(d) # {} /\ ~IsConstant(SeriesOf(d))

---------------------------------------------------------------------------
(* C7: with a national rate of zero (surviving rows, no biometrics at all) *)
(* or no surviving row, no infinite or undefined intensity index is in the *)
(* top-10 table.                                                           *)

C7_IndexGuarded ==
    Past("hubs") =>
        \A i \in 1..Len(top_districts) :
            IsFinite(top_districts[i].biometric_intensity_index)

---------------------------------------------------------------------------
(* C8: when the filter leaves no row in any of the three tables, every     *)
(* indicator completes with an empty or undefined result: the totals are   *)
(* 0, the series, rankings and spike table empty, the national rate and    *)
(* the correlation nan.  In every run with a pair of dates no step raises, *)
(* and the step after it can always be taken: an empty or undefined result *)
(* of one indicator stops no later indicator.                              *)

EmptyRun ==
    /\ Len(date_range) = 2 /\ pc # "filters"
    /\ biometric_f = <<>> /\ enrolment_f = <<>> /\ demographic_f = <<>>

C8_EmptyCompletes ==
    /\ Len(date_range) = 2 => Running
    /\ EmptyRun =>
          /\ pc # "done" => ENABLED Next
          /\ Past("overview") =>
                total_population = 0 /\ total_enrolments = 0 /\ total_biometrics = 0
          /\ Past("trends") => enrol_ts = <<>> /\ bio_ts = <<>>
          /\ Past("aggregation") => merged = <<>>
          /\ Past("hubs") => IsNaN(national_rate) /\ top_districts = <<>>
          /\ Past("states") => state_agg = <<>> /\ top_states = <<>>
          /\ Past("growth") => trend = <<>>
          /\ Past("anomaly") => monthly = <<>> /\ latest_month = NaT /\ spikes = <<>>
          /\ Past("correlation") =>
                /\ corr_df = <<>> /\ IsNaN(lead_corr)
                /\ \A i \in 1..Len(corr_vals) : IsNaN(corr_vals[i].value)

C8_Witness == EmptyRun /\ pc = "done" /\ Len(biometric) > 2 /\ Len(demographic) > 2

---------------------------------------------------------------------------
(* C9: the spikes are exactly the rows of the monthly series whose month   *)
(* is the latest month of all districts and whose z-score exceeds 3; a     *)
(* district whose last observed month is earlier than that month, and a    *)
(* district with fewer than two observed months, is never emitted.         *)

C9_SpikesExact ==
    Past("anomaly") =>
        /\ Range(spikes) =
              {r \in Range(monthly) :
                  r.month = GlobalLatest /\ ZExceeds(r.z_score, SpikeThreshold)}
        /\ Len(spikes) = Cardinality(Range(spikes))
        /\ \A d \in Districts :
              (MonthsOf(d) # {} /\ LatestOf(d) < GlobalLatest) => ~Spiked(d)
        /\ \A d \in Districts :
              Cardinality(MonthsOf(d)) < 2 => ~Spiked(d)

\* A spike is emitted for one district, while another whose series ends a
\* month earlier has a z-score above 3 in its own last month, and a third
\* has a single month.
C9_Witness ==
    /\ pc = "done"
    /\ \E d \in Districts :
          /\ MonthsOf(d) # {} /\ LatestOf(d) < GlobalLatest
          /\ ZExceeds(RowOf(d, LatestOf(d)).z_score, SpikeThreshold)
          /\ ~Spiked(d)
    /\ \E d \in Districts : Cardinality(MonthsOf(d)) = 1 /\ ~Spiked(d)

---------------------------------------------------------------------------
(* C10: as claimed, a district with 10 or fewer observed months is never   *)
(* emitted as a spike.                                                     *)

C10_AsClaimed ==
    Past("anomaly") =>
        \A d \in Districts : Cardinality(MonthsOf(d)) <= 10 => ~Spiked(d)

(* C10, amended: the exact z-score of a month of a district with n         *)
(* observed months is at most sqrt(n - 1), so a district with 9 or fewer   *)
(* observed months is never emitted as a spike.  With exactly 10 months    *)
(* the exact z-score can be 3, and then, unless the mean is a float64      *)
(* exactly, rounding decides z_score > 3: such a district is emitted only  *)
(* in that case.                                                           *)
C10_NineOrFewer ==
    Past("anomaly") =>
        /\ \A i \in 1..Len(monthly) :
              LET z == monthly[i].z_score
                  n == Cardinality(MonthsOf(monthly[i].district))
              IN z.kind = "num" => z.dev * z.dev <= (n - 1) * z.varn
        /\ \A d \in Districts : Cardinality(MonthsOf(d)) <= 9 => ~Spiked(d)
        /\ \A i \in 1..Len(spikes) :
              Cardinality(MonthsOf(spikes[i].district)) = 10
                  => OnThreshold(spikes[i].z_score)

\* A district with nine observed months whose last month, the latest of
\* all, has the greatest z-score nine months allow, sqrt(8): no spike.
C10_Witness ==
    /\ pc = "done"
    /\ \E d \in Districts :
          /\ Cardinality(MonthsOf(d)) = 9 /\ EndsLatest(d)
          /\ RowOf(d, LatestOf(d)).z_score.dev > 0
          /\ RowOf(d, LatestOf(d)).z_score.dev * RowOf(d, LatestOf(d)).z_score.dev
                = 8 * RowOf(d, LatestOf(d)).z_score.varn
          /\ ~Spiked(d)

===========================================================================
